---- MODULE Spec2Model ----
(***************************************************************************)
(* The in-memory server store of the dashboard (web/lib/server-store.ts):  *)
(* a process-wide singleton holding the list of server records and one     *)
(* log per server id, with the five exported operations listServers,       *)
(* addServer, removeServer, getServerLogs and appendServerLog.             *)
(*                                                                         *)
(* Strings whose content matters (names, endpoints) are sequences of       *)
(* characters, so that blankness is computed and not assumed.  A message   *)
(* built from a template literal is the sequence of its parts.             *)
(* crypto.randomUUID() is a counter: every call returns a value never      *)
(* returned before.  new Date() reads a clock that never goes back.        *)
(***************************************************************************)
EXTENDS Integers, Sequences, FiniteSets

VARIABLES
  servers,    \* store.servers: ServerRecord[]
  logs,       \* store.logs: Record<string, ServerLog[]>, a function on its keys
  nextUuid,   \* the next value crypto.randomUUID() returns
  clock,      \* the time new Date() reads
  calls,      \* how many store operations have been called
  last,       \* the last call: its name, id, argument and return value
  prior,      \* the call before the last
  pre,        \* the store as it was when the last call started
  appended,   \* per key of logs: the ids of all entries put there, newest first
  route,      \* the last request a proxy route handled, and what became of it
  cp,         \* the control plane: registry, log store, vault, check results
  twin,       \* a second control plane, given the same operations with other tokens
  locks,      \* the ids whose per-id lock is held in the control plane
  updating,   \* the Update the control plane is working on, and how far it is
  deleting,   \* the Delete the control plane is working on, and how far it is
  ui,         \* the React state of the dashboard page
  tasks,      \* the dashboard's handler invocations waiting at an await
  clicks,     \* how many requests the operator's clicks have started
  unhandled   \* the invocations that ended in an unhandled rejection

storeVars == <<servers, logs, nextUuid, clock, calls, last, prior, pre, appended>>

proxyVars == <<route>>

cpVars == <<cp, twin, locks, updating, deleting>>

dashVars == <<ui, tasks, clicks, unhandled>>

vars == <<storeVars, proxyVars, cpVars, dashVars>>

----------------------------------------------------------------------------
(* Bounds of the exploration *)

MaxCalls == 3

MaxClock == 1

MaxSetup == 2

BurstLen == 205

----------------------------------------------------------------------------
(* Program constants and input sets *)

LogCap == 200

RecognizedTypes == {"stdio", "http", "sse"}

ServerIds == {"s1", "s2"}

HeavyId == "s1"

NameW == <<"W">>

EndpointX == <<"x">>

\* What a caller may hand to addServer besides the id: TypeScript's types are
\* erased at run time, so blank strings and an unknown type get through.
Drafts ==
  { [name |-> NameW,       endpoint |-> EndpointX, type |-> "http"],
    [name |-> NameW,       endpoint |-> EndpointX, type |-> "stdio"],
    [name |-> <<" ", " ">>, endpoint |-> EndpointX, type |-> "sse"],
    [name |-> NameW,       endpoint |-> <<>>,      type |-> "http"],
    [name |-> NameW,       endpoint |-> EndpointX, type |-> "ftp"] }

ValidDrafts == { [name |-> NameW, endpoint |-> EndpointX, type |-> "http"] }

WithId(id, draft) ==
  [id |-> id, name |-> draft.name, endpoint |-> draft.endpoint, type |-> draft.type]

Levels == {"info", "error"}

CallerMessage == <<"probe">>

----------------------------------------------------------------------------
(* Helpers *)

Min(a, b) == IF a <= b THEN a ELSE b

\* String.prototype.trim() leaves the empty string: only white space.
IsBlank(str) == \A i \in 1..Len(str) : str[i] = " "

\* Array.prototype.slice(from, to) with 0 <= from <= to, zero-based, to excluded.
slice(arr, from, to) == SubSeq(arr, from + 1, Min(to, Len(arr)))

\* obj[key] = value
Put(obj, key, value) ==
  [k \in (DOMAIN obj) \cup {key} |-> IF k = key THEN value ELSE obj[k]]

\* delete obj[key]
Delete(obj, key) == [k \in (DOMAIN obj) \ {key} |-> obj[k]]

\* obj[key] ?? []
GetOrEmpty(obj, key) == IF key \in DOMAIN obj THEN obj[key] ELSE <<>>

Store == [servers |-> servers, logs |-> logs]

NoCall == [op |-> "none", id |-> "", arg |-> <<>>, ret |-> <<>>, error |-> "none"]

idsOf(list) == { list[i].id : i \in 1..Len(list) }

EntryIds(log) == [i \in 1..Len(log) |-> log[i].id]

----------------------------------------------------------------------------
(* The pieces of the operations *)

\* { ...server, createdAt: new Date().toISOString() }
newRecord(server, now) ==
  [id |-> server.id, name |-> server.name, endpoint |-> server.endpoint,
   type |-> server.type, createdAt |-> now]

\* store.servers = [record, ...store.servers]
prependRecord(record, list) == <<record>> \o list

\* the log addServer writes for a new record
initialLog(record, uuid, now) ==
  << [id |-> uuid, timestamp |-> now, level |-> "info",
      message |-> <<"Server ", record.name, " added (", record.type, ").">>] >>

\* store.servers.filter((server) => server.id !== id)
withoutServer(list, id) == SelectSeq(list, LAMBDA server : server.id # id)

\* (variant: the log of a removed server is kept)
withoutLogKept(obj, id) == obj

\* delete store.logs[id]
withoutLog(obj, id) == Delete(obj, id)

\* (variant: <= for <)
removedOrSame(before, after) == after <= before

\* return store.servers.length < before
removed(before, after) == after < before

\* the log getServerLogs writes for a key that has none
placeholderLog(uuid, now) ==
  << [id |-> uuid, timestamp |-> now, level |-> "info",
      message |-> <<"No logs yet for this server.">>] >>

\* { ...log, id: crypto.randomUUID() }
newEntry(log, uuid) ==
  [id |-> uuid, timestamp |-> log.timestamp, level |-> log.level,
   message |-> log.message]

\* (variant: the entry is pushed at the back)
pushEntry(entry, old) == old \o <<entry>>

\* [entry, ...(store.logs[id] ?? [])]
prependEntry(entry, old) == <<entry>> \o old

\* (variant: the cap is checked with the wrong count)
capLogOffByOne(entries) == slice(entries, 0, LogCap + 1)

\* .slice(0, 200)
capLog(entries) == slice(entries, 0, LogCap)

----------------------------------------------------------------------------
(* The proxy routes of the dashboard (app/api/servers/...): each answers one *)
(* request by forwarding it to the control plane at CONTROL_PLANE_API_URL.   *)
(* A URL is the sequence of its characters.                                  *)

SchemeHttp == <<"h", "t", "t", "p", ":", "/", "/">>

SchemeHttps == <<"h", "t", "t", "p", "s", ":", "/", "/">>

RailwayInternal ==
  <<".", "r", "a", "i", "l", "w", "a", "y", ".",
    "i", "n", "t", "e", "r", "n", "a", "l">>

\* String.prototype.startsWith
StartsWith(str, prefix) ==
  Len(prefix) <= Len(str) /\ SubSeq(str, 1, Len(prefix)) = prefix

\* String.prototype.endsWith
EndsWith(str, suffix) ==
  Len(suffix) <= Len(str)
    /\ SubSeq(str, Len(str) - Len(suffix) + 1, Len(str)) = suffix

\* .replace(/\/$/, "")
stripTrailingSlash(str) ==
  IF Len(str) > 0 /\ str[Len(str)] = "/" THEN SubSeq(str, 1, Len(str) - 1) ELSE str

Null == [isNull |-> TRUE, value |-> <<>>]

Url(str) == [isNull |-> FALSE, value |-> str]

\* process.env.CONTROL_PLANE_API_URL ?? ""
rawOf(env) == IF env.isSet THEN env.value ELSE <<>>

\* (variant: the empty setting is not told from a host name)
getControlPlaneUrlNoEmptyCheck(env) ==
  LET raw == rawOf(env)
  IN IF StartsWith(raw, SchemeHttp) \/ StartsWith(raw, SchemeHttps)
       THEN Url(stripTrailingSlash(raw))
       ELSE Url(stripTrailingSlash(
                  (IF EndsWith(raw, RailwayInternal) THEN SchemeHttp ELSE SchemeHttps)
                    \o raw))

getControlPlaneUrl(env) ==
  LET raw == rawOf(env)
  IN IF raw = <<>>
       THEN Null
       ELSE IF StartsWith(raw, SchemeHttp) \/ StartsWith(raw, SchemeHttps)
         THEN Url(stripTrailingSlash(raw))
         ELSE Url(stripTrailingSlash(
                    (IF EndsWith(raw, RailwayInternal) THEN SchemeHttp ELSE SchemeHttps)
                      \o raw))

Unset == [isSet |-> FALSE, value |-> <<>>]

Setting(str) == [isSet |-> TRUE, value |-> str]

\* Values of CONTROL_PLANE_API_URL: unset, empty, with a scheme, bare hosts.
Envs ==
  { Unset,
    Setting(<<>>),
    Setting(SchemeHttp \o <<"a">>),
    Setting(SchemeHttps \o <<"a", "/">>),
    Setting(<<"a">>),
    Setting(<<"a", "/">>),
    Setting(<<"c">> \o RailwayInternal),
    Setting(<<"c">> \o RailwayInternal \o <<"/">>) }

\* What the control plane does with a forwarded request: it answers with a
\* status and a JSON body, or fetch rejects, or the body is not JSON.
Statuses == {200, 201, 400, 404, 500}

JsonBodies == {"B1", "B2"}

Upstreams ==
  [kind : {"json"}, status : Statuses, body : JsonBodies]
    \cup { [kind |-> "reject", status |-> 0, body |-> ""] }
    \cup [kind : {"notjson"}, status : {200, 500}, body : {""}]

RequestBodies == {"", "R1"}

NoRequest ==
  [handler |-> "none", id |-> "", env |-> Unset,
   upstream |-> [kind |-> "reject", status |-> 0, body |-> ""],
   kind |-> "none", status |-> 0, body |-> "", sent |-> <<>>]

\* NextResponse.json({ error: "Missing CONTROL_PLANE_API_URL." }, { status: 500 })
missingUrl ==
  [kind |-> "response", status |-> 500,
   body |-> "error: Missing CONTROL_PLANE_API_URL.", sent |-> <<>>]

\* (variant: the upstream status is not passed on)
echoAlwaysOk(upstream, request) ==
  [kind |-> "response", status |-> 200, body |-> upstream.body,
   sent |-> <<request>>]

\* NextResponse.json(payload, { status: response.status })
echo(upstream, request) ==
  [kind |-> "response", status |-> upstream.status, body |-> upstream.body,
   sent |-> <<request>>]

\* catch (error): NextResponse.json({ error: "Failed to reach control plane.", ... }, { status: 502 })
unreachable(request) ==
  [kind |-> "response", status |-> 502,
   body |-> "error: Failed to reach control plane.", sent |-> <<request>>]

\* await fetch(...) or await response.json() throws and nothing catches it
thrown(request) ==
  [kind |-> "threw", status |-> 0, body |-> "", sent |-> <<request>>]

\* const response = await fetch(...); const payload = await response.json();
\* return NextResponse.json(...), inside try/catch or not
forward(caught, upstream, request) ==
  IF upstream.kind = "json" THEN echo(upstream, request)
  ELSE IF caught THEN unreachable(request)
  ELSE thrown(request)

Request(method, base, path, body) ==
  [method |-> method, url |-> base \o path, body |-> body]

\* (variant: the check route answers 502 whatever the control plane said)
checkPOSTAlways502(id, env, upstream) ==
  unreachable(Request("POST", stripTrailingSlash(rawOf(env)), <<"/servers/", id, "/check">>, ""))

\* POST of api/servers/[id]/check/route.ts
checkPOST(id, env, upstream) ==
  LET baseUrl == getControlPlaneUrl(env)
  IN IF baseUrl.isNull THEN missingUrl
     ELSE forward(FALSE, upstream,
                  Request("POST", baseUrl.value, <<"/servers/", id, "/check">>, ""))

\* DELETE of api/servers/[id]/route.ts
serverDELETE(id, env, upstream) ==
  LET baseUrl == getControlPlaneUrl(env)
  IN IF baseUrl.isNull THEN missingUrl
     ELSE forward(TRUE, upstream,
                  Request("DELETE", baseUrl.value, <<"/servers/", id>>, ""))

\* PUT of api/servers/[id]/route.ts
serverPUT(id, body, env, upstream) ==
  LET baseUrl == getControlPlaneUrl(env)
  IN IF baseUrl.isNull THEN missingUrl
     ELSE forward(TRUE, upstream,
                  Request("PUT", baseUrl.value, <<"/servers/", id>>, body))

\* GET of api/servers/route.ts, the copy without try/catch
serversGETplain(env, upstream) ==
  LET baseUrl == getControlPlaneUrl(env)
  IN IF baseUrl.isNull THEN missingUrl
     ELSE forward(FALSE, upstream, Request("GET", baseUrl.value, <<"/servers">>, ""))

\* POST of api/servers/route.ts, the copy without try/catch
serversPOSTplain(body, env, upstream) ==
  LET baseUrl == getControlPlaneUrl(env)
  IN IF baseUrl.isNull THEN missingUrl
     ELSE forward(FALSE, upstream, Request("POST", baseUrl.value, <<"/servers">>, body))

\* GET of api/servers/route.ts
serversGET(env, upstream) ==
  LET baseUrl == getControlPlaneUrl(env)
  IN IF baseUrl.isNull THEN missingUrl
     ELSE forward(TRUE, upstream, Request("GET", baseUrl.value, <<"/servers">>, ""))

\* POST of api/servers/route.ts
serversPOST(body, env, upstream) ==
  LET baseUrl == getControlPlaneUrl(env)
  IN IF baseUrl.isNull THEN missingUrl
     ELSE forward(TRUE, upstream, Request("POST", baseUrl.value, <<"/servers">>, body))


----------------------------------------------------------------------------
(* The control plane the routes forward to.  Its code is not part of the     *)
(* dashboard; it is written here from its specification, on top of the       *)
(* record, log and delete steps of the store above.  Its state is one value: *)
(* the registry (servers), the log store (logs), the credential vault        *)
(* (vault), the last check results (checks), how many probes the checker     *)
(* has run (probed), how many times a result was recorded (recorded), and    *)
(* the two generators of fresh ids.                                          *)

RECURSIVE TrimLeft(_)
TrimLeft(str) ==
  IF Len(str) > 0 /\ str[1] = " " THEN TrimLeft(Tail(str)) ELSE str

RECURSIVE TrimRight(_)
TrimRight(str) ==
  IF Len(str) > 0 /\ str[Len(str)] = " "
    THEN TrimRight(SubSeq(str, 1, Len(str) - 1))
    ELSE str

\* String.prototype.trim
trim(str) == TrimRight(TrimLeft(str))

Some(value) == [isNull |-> FALSE, value |-> value]

\* The ids the control plane hands out, in the order it hands them out.
FreshIds == <<"s1", "s2", "s3", "s4", "s5", "s6", "s7", "s8">>

EmptyCP ==
  [servers |-> <<>>, logs |-> <<>>, vault |-> <<>>, checks |-> <<>>,
   probed |-> 0, recorded |-> 0, nextId |-> 1, nextUuid |-> 1]

Answer(state, status, error, value) ==
  [state |-> state, kind |-> "json", status |-> status,
   body |-> [error |-> error, value |-> value]]

\* A request body: { name, endpoint, type, authToken? }
Payload(name, endpoint, type, hasToken, authToken) ==
  [name |-> name, endpoint |-> endpoint, type |-> type,
   hasToken |-> hasToken, authToken |-> authToken]

cpValid(payload) ==
  /\ ~IsBlank(payload.name)
  /\ ~IsBlank(payload.endpoint)
  /\ payload.type \in RecognizedTypes

cpHasToken(payload) == payload.hasToken /\ ~IsBlank(payload.authToken)

cpKnown(st, id) == id \in idsOf(st.servers)

\* (variant: the stored secret is part of the listed record)
cpExposedWithToken(st, record) ==
  [id |-> record.id, name |-> record.name, endpoint |-> record.endpoint,
   type |-> record.type, createdAt |-> record.createdAt,
   authConfigured |-> record.id \in DOMAIN st.vault,
   authToken |-> GetOrEmpty(st.vault, record.id),
   lastCheck |-> GetOrEmpty(st.checks, record.id)]

\* A ServerRecord as the dashboard gets it: authConfigured, never the secret.
cpExposed(st, record) ==
  [id |-> record.id, name |-> record.name, endpoint |-> record.endpoint,
   type |-> record.type, createdAt |-> record.createdAt,
   authConfigured |-> record.id \in DOMAIN st.vault,
   lastCheck |-> GetOrEmpty(st.checks, record.id)]

\* Vault.Set
cpVaultSet(vault, id, secret) ==
  IF IsBlank(secret) THEN Delete(vault, id) ELSE Put(vault, id, secret)

\* Log Store Append
cpAppend(st, id, level, message) ==
  [st EXCEPT
     !.logs = Put(@, id,
                  capLog(prependEntry(
                    newEntry([timestamp |-> 0, level |-> level, message |-> message],
                             st.nextUuid),
                    GetOrEmpty(@, id)))),
     !.nextUuid = @ + 1]

\* GET /servers
cpList(st) ==
  Answer(st, 200, "", [i \in 1..Len(st.servers) |-> cpExposed(st, st.servers[i])])

\* POST /servers
cpCreate(st, payload) ==
  IF ~cpValid(payload) THEN Answer(st, 400, "ValidationError", <<>>)
  ELSE
    LET id == FreshIds[st.nextId]
        record == newRecord(WithId(id, payload), 0)
        after ==
          [st EXCEPT
             !.servers = prependRecord(record, @),
             !.logs = Put(@, id, initialLog(record, st.nextUuid, 0)),
             !.vault = IF cpHasToken(payload)
                         THEN cpVaultSet(@, id, payload.authToken) ELSE @,
             !.nextUuid = @ + 1,
             !.nextId = @ + 1]
    IN Answer(after, 201, "", cpExposed(after, record))

\* Replaces name, endpoint and type of the record with this id, in place.
cpReplace(list, id, payload) ==
  [i \in 1..Len(list) |->
     IF list[i].id = id
       THEN [list[i] EXCEPT !.name = payload.name, !.endpoint = payload.endpoint,
                            !.type = payload.type]
       ELSE list[i]]

\* Update's vault write: only a non-blank token replaces the secret.
cpUpdateVault(vault, id, payload) ==
  IF cpHasToken(payload) THEN cpVaultSet(vault, id, payload.authToken) ELSE vault

\* Update, first the Registry
cpUpdateRecord(st, id, payload) ==
  [st EXCEPT !.servers = cpReplace(@, id, payload)]

\* Update, then the Vault
cpUpdateSecret(st, id, payload) ==
  [st EXCEPT !.vault = cpUpdateVault(@, id, payload)]

\* PUT /servers/{id}
cpUpdate(st, id, payload) ==
  IF ~cpKnown(st, id) THEN Answer(st, 404, "NotFoundError", <<>>)
  ELSE IF ~cpValid(payload) THEN Answer(st, 400, "ValidationError", <<>>)
  ELSE
    LET after == cpUpdateSecret(cpUpdateRecord(st, id, payload), id, payload)
        record == CHOOSE r \in { after.servers[i] : i \in 1..Len(after.servers) } :
                    r.id = id
    IN Answer(after, 200, "", cpExposed(after, record))

\* Delete, first the record and its log, as removeServer does
cpDeleteRecord(st, id) ==
  [st EXCEPT !.servers = withoutServer(@, id), !.logs = withoutLog(@, id),
             !.checks = Delete(@, id)]

\* Delete, then the Vault
cpDeleteSecret(st, id) == [st EXCEPT !.vault = Delete(@, id)]

\* DELETE /servers/{id}
cpDelete(st, id) ==
  LET after == cpDeleteSecret(cpDeleteRecord(st, id), id)
  IN Answer(after, 200, "", removed(Len(st.servers), Len(after.servers)))

\* GET /servers/{id}/token
cpGetToken(st, id) ==
  IF ~cpKnown(st, id) THEN Answer(st, 404, "NotFoundError", <<>>)
  ELSE Answer(st, 200, "",
              IF id \in DOMAIN st.vault THEN Some(st.vault[id]) ELSE Null)

\* What a probe can come to, and the result the checker makes of it.
Probes == {"accepted", "timeout", "server error"}

cpResult(probe) ==
  CASE probe = "accepted"     -> [status |-> "healthy",     latencyMs |-> 1, detail |-> "ok"]
    [] probe = "refused"      -> [status |-> "unreachable", latencyMs |-> 0, detail |-> "refused"]
    [] probe = "timeout"      -> [status |-> "unreachable", latencyMs |-> 0, detail |-> "timeout"]
    [] probe = "server error" -> [status |-> "error",       latencyMs |-> 1, detail |-> "HTTP 500"]
    [] OTHER                  -> [status |-> "error",       latencyMs |-> 0, detail |-> "exception"]

\* RecordCheckResult: nothing for an id that is gone.
cpRecordCheckResult(st, id, result) ==
  LET counted == [st EXCEPT !.recorded = @ + 1]
  IN IF ~cpKnown(st, id) THEN counted
     ELSE cpAppend([counted EXCEPT !.checks = Put(@, id, result)], id,
                   IF result.status = "healthy" THEN "info" ELSE "error",
                   <<"Check ", result.status, result.latencyMs, result.detail>>)

\* POST /servers/{id}/check
cpCheck(st, id, probe) ==
  IF ~cpKnown(st, id) THEN Answer(st, 404, "NotFoundError", <<>>)
  ELSE Answer(cpRecordCheckResult([st EXCEPT !.probed = @ + 1], id, cpResult(probe)),
              200, "", cpResult(probe))

\* GET /servers/{id}/logs
cpGetLogs(st, id) == Answer(st, 200, "", GetOrEmpty(st.logs, id))

\* A request the control plane is not working on.
Idle ==
  [pc |-> "idle", id |-> "", payload |-> Payload(<<>>, <<>>, "", FALSE, <<>>),
   result |-> "none"]

\* (variant: nobody waits for the lock)
freeAlways(held, id) == TRUE

\* The per-id lock can be taken.
free(held, id) == id \notin held

\* fetch rejects: the control plane cannot be reached
Rejected(st) ==
  [state |-> st, kind |-> "reject", status |-> 0, body |-> [error |-> "", value |-> <<>>]]

----------------------------------------------------------------------------
(* The dashboard page.  ui is the React state of HomePage; tasks are the     *)
(* handler invocations that wait at an await, each with what it captured     *)
(* when it started, and for the record the probe its check ran and the       *)
(* stored secret of its id before and after it was served; clicks counts the requests started; unhandled holds the  *)
(* invocations whose promise was rejected with nobody to catch it.  The      *)
(* texts of errorMessage, the create dialog and the log dialog are left out; *)
(* ui.tokenOwner is not React state: it remembers whose token existingToken  *)
(* is.                                                                       *)

\* How the dashboard's server is set up: CONTROL_PLANE_API_URL=http://a
DashEnv == Setting(SchemeHttp \o <<"a">>)

TokenAbc == <<"a", "b", "c">>
TokenXyz == <<"x", "y", "z">>
BlankToken == <<" ", " ">>
EmptyToken == <<>>

NoPayload == Payload(<<>>, <<>>, "", FALSE, <<>>)

NullDraft ==
  [isNull |-> TRUE, name |-> <<>>, endpoint |-> <<>>, type |-> "", authToken |-> <<>>]

\* (variant: the token field is sent as typed)
tokenFieldAsTyped(authToken) == [hasToken |-> TRUE, authToken |-> authToken]

\* authToken: draft.authToken?.trim() || undefined, then JSON.stringify
tokenField(authToken) ==
  IF Len(trim(authToken)) = 0
    THEN [hasToken |-> FALSE, authToken |-> <<>>]
    ELSE [hasToken |-> TRUE, authToken |-> trim(authToken)]

\* const payload = { ...draft, authToken: ... } of handleCreateServer
createPayload(draft) ==
  Payload(draft.name, draft.endpoint, draft.type,
          tokenField(draft.authToken).hasToken, tokenField(draft.authToken).authToken)

\* const payload = { name, endpoint, type, authToken: ... } of handleEdit
editPayload(editDraft) ==
  Payload(editDraft.name, editDraft.endpoint, editDraft.type,
          tokenField(editDraft.authToken).hasToken,
          tokenField(editDraft.authToken).authToken)

\* useState(...) of HomePage
InitialUi ==
  [servers |-> <<>>, isLoading |-> FALSE, isChecking |-> "", errorMessage |-> FALSE,
   editOpen |-> FALSE, editDraft |-> NullDraft, editTargetId |-> "",
   existingToken |-> Null, isTokenVisible |-> FALSE, isTokenLoading |-> FALSE,
   tokenOwner |-> ""]

NoResponse == [kind |-> "none", status |-> 0, body |-> <<>>, sent |-> <<>>]

Task(n, handler, id, payload, pc) ==
  [n |-> n, handler |-> handler, id |-> id, payload |-> payload, pc |-> pc,
   response |-> NoResponse, probe |-> "none", before |-> Null, after |-> Null]

\* response.ok
ok(response) == response.kind = "response" /\ response.status \in 200..299

\* await response.json() succeeds: the route answered with JSON
parses(response) == response.kind = "response"

\* GET of api/servers/[id]/token/route.ts
tokenGET(id, env, upstream) ==
  LET baseUrl == getControlPlaneUrl(env)
  IN IF baseUrl.isNull THEN missingUrl
     ELSE forward(TRUE, upstream,
                  Request("GET", baseUrl.value, <<"/servers/", id, "/token">>, ""))

\* What the control plane does with the request a task's fetch leads to.
upstreamOf(st, task, probe) ==
  CASE task.pc = "load fetch"                -> cpList(st)
    [] task.handler = "handleCreateServer"   -> cpCreate(st, task.payload)
    [] task.handler = "handleDelete"         -> cpDelete(st, task.id)
    [] task.handler = "handleCheck"          -> cpCheck(st, task.id, probe)
    [] task.handler = "loadToken"            -> cpGetToken(st, task.id)
    [] OTHER                                 -> cpUpdate(st, task.id, task.payload)

\* The route the task's fetch goes to.
routeOf(task, upstream) ==
  CASE task.pc = "load fetch"                -> serversGET(DashEnv, upstream)
    [] task.handler = "handleCreateServer"   -> serversPOST(task.payload, DashEnv, upstream)
    [] task.handler = "handleDelete"         -> serverDELETE(task.id, DashEnv, upstream)
    [] task.handler = "handleCheck"          -> checkPOST(task.id, DashEnv, upstream)
    [] task.handler = "loadToken"            -> tokenGET(task.id, DashEnv, upstream)
    [] OTHER                                 -> serverPUT(task.id, task.payload, DashEnv, upstream)

----------------------------------------------------------------------------
(* The state after the module is loaded and getStore() has run once *)

InitStore ==
  /\ servers = <<>>
  /\ logs = <<>>
  /\ nextUuid = 1
  /\ clock = 0
  /\ calls = 0
  /\ last = NoCall
  /\ prior = NoCall
  /\ pre = [servers |-> <<>>, logs |-> <<>>]
  /\ appended = <<>>
  /\ route = NoRequest

\* Nothing asked of the control plane yet.
InitCP ==
  /\ cp = EmptyCP
  /\ twin = EmptyCP
  /\ locks = {}
  /\ updating = Idle
  /\ deleting = Idle

\* The page before it is shown.
InitUi ==
  /\ ui = InitialUi
  /\ tasks = {}
  /\ clicks = 0
  /\ unhandled = {}

Init == InitStore /\ InitCP /\ InitUi

Called(op, id, arg, ret) ==
  /\ last' = [op |-> op, id |-> id, arg |-> arg, ret |-> ret, error |-> "none"]
  /\ prior' = last
  /\ pre' = Store
  /\ calls' = calls + 1
  /\ UNCHANGED <<proxyVars, cpVars, dashVars>>

----------------------------------------------------------------------------
(* The operations *)

listServers ==
  /\ Called("listServers", "", <<>>, servers)
  /\ UNCHANGED <<servers, logs, nextUuid, clock, appended>>

\* The two new Date() of addServer may read different times.
addServer(server) ==
  \E later \in clock..Min(clock + 1, MaxClock) :
    LET record == newRecord(server, clock)
    IN /\ servers' = prependRecord(record, servers)
       /\ logs' = Put(logs, record.id, initialLog(record, nextUuid, later))
       /\ appended' = Put(appended, record.id, <<nextUuid>>)
       /\ nextUuid' = nextUuid + 1
       /\ clock' = later
       /\ Called("addServer", server.id, server, record)

removeServer(id) ==
  LET before == Len(servers)
      kept == withoutServer(servers, id)
  IN /\ servers' = kept
     /\ logs' = withoutLog(logs, id)
     /\ appended' = Delete(appended, id)
     /\ Called("removeServer", id, <<>>, removed(before, Len(kept)))
     /\ UNCHANGED <<nextUuid, clock>>

getServerLogs(id) ==
  /\ IF id \notin DOMAIN logs
       THEN /\ logs' = Put(logs, id, placeholderLog(nextUuid, clock))
            /\ appended' = Put(appended, id, <<nextUuid>>)
            /\ nextUuid' = nextUuid + 1
       ELSE UNCHANGED <<logs, appended, nextUuid>>
  /\ Called("getServerLogs", id, <<>>, logs'[id])
  /\ UNCHANGED <<servers, clock>>

appendServerLog(id, log) ==
  LET entry == newEntry(log, nextUuid)
  IN /\ logs' = Put(logs, id, capLog(prependEntry(entry, GetOrEmpty(logs, id))))
     /\ appended' = Put(appended, id, <<nextUuid>> \o GetOrEmpty(appended, id))
     /\ nextUuid' = nextUuid + 1
     /\ Called("appendServerLog", id, log, <<>>)
     /\ UNCHANGED <<servers, clock>>

\* Time passes between calls.
Tick ==
  /\ clock < MaxClock
  /\ clock' = clock + 1
  /\ UNCHANGED <<servers, logs, nextUuid, calls, last, prior, pre, appended>>
  /\ UNCHANGED <<proxyVars, cpVars, dashVars>>

----------------------------------------------------------------------------
(* Any caller, any order, up to MaxCalls calls *)

Next ==
  \/ calls < MaxCalls /\ listServers
  \/ \E id \in ServerIds, draft \in Drafts :
       calls < MaxCalls /\ addServer(WithId(id, draft))
  \/ \E id \in ServerIds : calls < MaxCalls /\ removeServer(id)
  \/ \E id \in ServerIds : calls < MaxCalls /\ getServerLogs(id)
  \/ \E id \in ServerIds, level \in Levels :
       calls < MaxCalls
       /\ appendServerLog(id, [timestamp |-> clock, level |-> level,
                                message |-> CallerMessage])
  \/ Tick

Spec == Init /\ [][Next]_vars

(* A long run of appends to one server after at most MaxSetup other calls *)

NextCap ==
  \/ calls < MaxSetup /\ listServers
  \/ \E id \in ServerIds, draft \in ValidDrafts :
       calls < MaxSetup /\ addServer(WithId(id, draft))
  \/ \E id \in ServerIds : calls < MaxSetup /\ removeServer(id)
  \/ \E id \in ServerIds : calls < MaxSetup /\ getServerLogs(id)
  \/ \E id \in ServerIds :
       /\ calls < MaxSetup + BurstLen
       /\ id = HeavyId \/ calls < MaxSetup
       /\ appendServerLog(id, [timestamp |-> clock, level |-> "info",
                                message |-> CallerMessage])

SpecCap == Init /\ [][NextCap]_vars

(* One request to a proxy route.  The routes keep no state between requests, *)
(* so one request from the initial state shows all a route can do.           *)

\* One request handled by a route: the request, the setting, what the control
\* plane did, and the outcome.
handled(handler, id, env, upstream, outcome) ==
  [handler |-> handler, id |-> id, env |-> env, upstream |-> upstream,
   kind |-> outcome.kind, status |-> outcome.status,
   body |-> outcome.body, sent |-> outcome.sent]

NextProxy ==
  \/ \E id \in ServerIds, env \in Envs, upstream \in Upstreams :
       /\ route = NoRequest
       /\ UNCHANGED <<storeVars, cpVars, dashVars>>
       /\ route' =
            handled("check POST", id, env, upstream, checkPOST(id, env, upstream))
  \/ \E id \in ServerIds, env \in Envs, upstream \in Upstreams :
       /\ route = NoRequest
       /\ UNCHANGED <<storeVars, cpVars, dashVars>>
       /\ route' =
            handled("server DELETE", id, env, upstream, serverDELETE(id, env, upstream))
  \/ \E id \in ServerIds, body \in RequestBodies, env \in Envs, upstream \in Upstreams :
       /\ route = NoRequest
       /\ UNCHANGED <<storeVars, cpVars, dashVars>>
       /\ route' =
            handled("server PUT", id, env, upstream, serverPUT(id, body, env, upstream))
  \/ \E env \in Envs, upstream \in Upstreams :
       /\ route = NoRequest
       /\ UNCHANGED <<storeVars, cpVars, dashVars>>
       /\ route' =
            handled("servers GET plain", "", env, upstream, serversGETplain(env, upstream))
  \/ \E body \in RequestBodies, env \in Envs, upstream \in Upstreams :
       /\ route = NoRequest
       /\ UNCHANGED <<storeVars, cpVars, dashVars>>
       /\ route' =
            handled("servers POST plain", "", env, upstream,
                    serversPOSTplain(body, env, upstream))
  \/ \E env \in Envs, upstream \in Upstreams :
       /\ route = NoRequest
       /\ UNCHANGED <<storeVars, cpVars, dashVars>>
       /\ route' =
            handled("servers GET", "", env, upstream, serversGET(env, upstream))
  \/ \E body \in RequestBodies, env \in Envs, upstream \in Upstreams :
       /\ route = NoRequest
       /\ UNCHANGED <<storeVars, cpVars, dashVars>>
       /\ route' =
            handled("servers POST", "", env, upstream, serversPOST(body, env, upstream))

SpecProxy == Init /\ [][NextProxy]_vars

----------------------------------------------------------------------------
(* The dashboard at work: the operator clicks, requests travel through the   *)
(* routes to the control plane, and responses come back in any order.        *)

MaxClicks == 2

\* The control plane the page is opened against: empty, or holding s1 with the
\* token "abc" and s2 with no token.
SeededCP ==
  cpCreate(cpCreate(EmptyCP, Payload(NameW, EndpointX, "http", TRUE, TokenAbc)).state,
           Payload(NameW, EndpointX, "sse", FALSE, <<>>)).state

\* What the operator may type into the create dialog.
DashDrafts ==
  { [name |-> NameW, endpoint |-> EndpointX, type |-> "http", authToken |-> tok] :
      tok \in {EmptyToken, TokenXyz} }
    \cup { [name |-> BlankToken, endpoint |-> EndpointX, type |-> "http",
            authToken |-> EmptyToken] }

\* What the operator may type into the token field of the edit dialog.
TypedTokens == {BlankToken, <<" ">> \o TokenXyz}

\* The page is shown: useEffect has called loadServers.
InitDash ==
  /\ InitStore
  /\ cp \in {EmptyCP, SeededCP}
  /\ twin = EmptyCP /\ locks = {} /\ updating = Idle /\ deleting = Idle
  /\ ui = [InitialUi EXCEPT !.isLoading = TRUE]
  /\ tasks = {Task(0, "loadServers", "", NoPayload, "load fetch")}
  /\ clicks = 0
  /\ unhandled = {}

shown == { ui.servers[i] : i \in 1..Len(ui.servers) }

\* A handler starts and runs to its first await.
Started(handler, id, payload, pc, state) ==
  /\ clicks < MaxClicks
  /\ clicks' = clicks + 1
  /\ ui' = state
  /\ tasks' = tasks \cup {Task(clicks + 1, handler, id, payload, pc)}
  /\ UNCHANGED <<storeVars, proxyVars, cpVars, unhandled>>

\* A click that starts no request.
Clicked(state) ==
  /\ ui' = state
  /\ UNCHANGED <<storeVars, proxyVars, cpVars, tasks, clicks, unhandled>>

\* The Refresh button
refresh ==
  /\ ~ui.editOpen /\ ~ui.isLoading
  /\ Started("loadServers", "", NoPayload, "load fetch", [ui EXCEPT !.isLoading = TRUE])

handleCreateServer(draft) ==
  /\ ~ui.editOpen
  /\ IF IsBlank(draft.name) \/ IsBlank(draft.endpoint)
       THEN Clicked(ui)
       ELSE Started("handleCreateServer", "", createPayload(draft), "fetch", ui)

handleDelete(id) ==
  /\ ~ui.editOpen
  /\ Started("handleDelete", id, NoPayload, "fetch", ui)

\* The Check button of a row is disabled while isChecking is the row's id.
handleCheck(id) ==
  /\ ~ui.editOpen
  /\ ui.isChecking # id
  /\ Started("handleCheck", id, NoPayload, "fetch", [ui EXCEPT !.isChecking = id])

openEdit(server) ==
  /\ ~ui.editOpen
  /\ Clicked([ui EXCEPT
                !.editTargetId = server.id,
                !.editDraft = [isNull |-> FALSE, name |-> server.name,
                               endpoint |-> server.endpoint, type |-> server.type,
                               authToken |-> <<>>],
                !.existingToken = Null,
                !.tokenOwner = "",
                !.isTokenVisible = FALSE,
                !.editOpen = TRUE])

\* The Cancel button of the edit dialog
cancelEdit ==
  /\ ui.editOpen
  /\ Clicked([ui EXCEPT !.editOpen = FALSE])

\* onChange of the token field of the edit dialog
typeToken(authToken) ==
  /\ ui.editOpen /\ ~ui.editDraft.isNull
  /\ ui.editDraft.authToken # authToken
  /\ Clicked([ui EXCEPT !.editDraft.authToken = authToken])

\* The Reveal button is disabled while isTokenLoading.
loadToken ==
  /\ ui.editOpen /\ ~ui.editDraft.isNull
  /\ ~ui.isTokenLoading
  /\ IF ui.editTargetId = ""
       THEN Clicked(ui)
       ELSE Started("loadToken", ui.editTargetId, NoPayload, "fetch",
                    [ui EXCEPT !.isTokenLoading = TRUE])

handleEdit ==
  /\ ui.editOpen
  /\ IF ui.editDraft.isNull \/ ui.editTargetId = ""
       THEN Clicked(ui)
       ELSE Started("handleEdit", ui.editTargetId, editPayload(ui.editDraft), "fetch", ui)

\* What GetToken would give for this id.
secretOf(st, id) == IF id \in DOMAIN st.vault THEN Some(st.vault[id]) ELSE Null

\* The route and the control plane answer a task's fetch; down: the control
\* plane cannot be reached; probe: what comes of the probe, if this is a check.
Serve(task, probe, down) ==
  LET upstream == IF down THEN Rejected(cp) ELSE upstreamOf(cp, task, probe)
      probes == ~down /\ task.handler = "handleCheck" /\ task.pc = "fetch"
                /\ cpKnown(cp, task.id)
      answered == [task EXCEPT
                     !.response = routeOf(task, upstream),
                     !.probe = IF probes THEN probe ELSE @,
                     !.before = secretOf(cp, task.id),
                     !.after = secretOf(upstream.state, task.id),
                     !.pc = IF task.pc = "fetch" THEN "response" ELSE "load response"]
  IN /\ task.pc \in {"fetch", "load fetch"}
     /\ probe = "accepted" \/ (~down /\ task.handler = "handleCheck" /\ task.pc = "fetch")
     /\ cp' = upstream.state
     /\ tasks' = (tasks \ {task}) \cup {answered}
     /\ UNCHANGED <<storeVars, proxyVars, twin, locks, updating, deleting,
                    ui, clicks, unhandled>>

\* The finally block of a handler
settled(state, handler) ==
  CASE handler = "handleCheck" -> [state EXCEPT !.isChecking = ""]
    [] handler = "loadToken"   -> [state EXCEPT !.isTokenLoading = FALSE]
    [] OTHER                   -> state

\* What a handler does between its successful response and its loadServers()
succeeded(state, handler) ==
  IF handler = "handleEdit"
    THEN [state EXCEPT !.errorMessage = FALSE, !.editOpen = FALSE,
                       !.editDraft = NullDraft, !.editTargetId = ""]
    ELSE [state EXCEPT !.errorMessage = FALSE]

\* loadServers from its response on
loaded(state, response) ==
  IF ~parses(response) THEN [state EXCEPT !.isLoading = FALSE]
  ELSE IF ~ok(response) THEN [state EXCEPT !.errorMessage = TRUE, !.isLoading = FALSE]
  ELSE [state EXCEPT !.errorMessage = FALSE, !.servers = response.body.value,
                     !.isLoading = FALSE]

\* A response reaches the page and the handler that waited for it goes on.
Deliver(task) ==
  LET response == task.response
      handler == task.handler
  IN /\ task.pc \in {"response", "load response"}
     /\ IF task.pc = "load response"
          THEN /\ ui' = settled(loaded(ui, response), handler)
               /\ tasks' = tasks \ {task}
               /\ unhandled' = IF parses(response) THEN unhandled
                               ELSE unhandled \cup {task}
        ELSE IF ~parses(response)
          THEN /\ ui' = settled(ui, handler)
               /\ tasks' = tasks \ {task}
               /\ unhandled' = unhandled \cup {task}
        ELSE IF ~ok(response)
          THEN /\ ui' = settled([ui EXCEPT !.errorMessage = TRUE], handler)
               /\ tasks' = tasks \ {task}
               /\ UNCHANGED unhandled
        ELSE IF handler = "loadToken"
          THEN /\ ui' = settled([ui EXCEPT !.errorMessage = FALSE,
                                           !.existingToken = response.body.value,
                                           !.tokenOwner = task.id,
                                           !.isTokenVisible = TRUE], handler)
               /\ tasks' = tasks \ {task}
               /\ UNCHANGED unhandled
        ELSE /\ ui' = [succeeded(ui, handler) EXCEPT !.isLoading = TRUE]
             /\ tasks' = (tasks \ {task}) \cup {[task EXCEPT !.pc = "load fetch"]}
             /\ UNCHANGED unhandled
     /\ UNCHANGED <<storeVars, proxyVars, cpVars, clicks>>

\* The operator works on the rows of the table.
NextRows ==
  \/ refresh
  \/ \E draft \in DashDrafts : handleCreateServer(draft)
  \/ \E server \in shown : handleDelete(server.id)
  \/ \E server \in shown : handleCheck(server.id)
  \/ \E task \in tasks, probe \in Probes, down \in BOOLEAN : Serve(task, probe, down)
  \/ \E task \in tasks : Deliver(task)

SpecRows == InitDash /\ [][NextRows]_vars

\* The operator checks servers.
NextChecks ==
  \/ \E server \in shown : handleCheck(server.id)
  \/ \E task \in tasks, probe \in Probes, down \in BOOLEAN : Serve(task, probe, down)
  \/ \E task \in tasks : Deliver(task)

SpecChecks == InitDash /\ [][NextChecks]_vars

\* The operator edits servers and saves.
NextSave ==
  \/ \E server \in shown : openEdit(server)
  \/ \E authToken \in TypedTokens : typeToken(authToken)
  \/ handleEdit
  \/ \E task \in tasks, probe \in Probes, down \in BOOLEAN : Serve(task, probe, down)
  \/ \E task \in tasks : Deliver(task)

SpecSave == InitDash /\ [][NextSave]_vars

\* The operator works in the edit dialog.
NextEdit ==
  \/ \E server \in shown : openEdit(server)
  \/ cancelEdit
  \/ \E authToken \in TypedTokens : typeToken(authToken)
  \/ loadToken
  \/ handleEdit
  \/ \E task \in tasks, probe \in Probes, down \in BOOLEAN : Serve(task, probe, down)
  \/ \E task \in tasks : Deliver(task)

SpecEdit == InitDash /\ [][NextEdit]_vars

----------------------------------------------------------------------------
(* Two control planes side by side: the same operations reach both, with the *)
(* token typed for the one and the token typed for the other.                *)

Tokens == {BlankToken, TokenAbc, TokenXyz}

\* The name, endpoint and type typed in both runs.
SharedDrafts ==
  { [name |-> NameW, endpoint |-> EndpointX, type |-> type] : type \in {"http", "sse"} }
    \cup { [name |-> BlankToken, endpoint |-> EndpointX, type |-> "http"] }

typed(shared, authToken) ==
  [name |-> shared.name, endpoint |-> shared.endpoint, type |-> shared.type,
   authToken |-> authToken]

\* One more operation the operator asks for, of both control planes.
Asked ==
  /\ clicks < MaxClicks
  /\ clicks' = clicks + 1
  /\ UNCHANGED <<storeVars, proxyVars, locks, updating, deleting, ui, tasks, unhandled>>

bothCreate(shared, authToken, otherToken) ==
  /\ cp' = cpCreate(cp, createPayload(typed(shared, authToken))).state
  /\ twin' = cpCreate(twin, createPayload(typed(shared, otherToken))).state
  /\ Asked

bothUpdate(id, shared, authToken, otherToken) ==
  /\ cp' = cpUpdate(cp, id, editPayload(typed(shared, authToken))).state
  /\ twin' = cpUpdate(twin, id, editPayload(typed(shared, otherToken))).state
  /\ Asked

bothCheck(id, probe) ==
  /\ cp' = cpCheck(cp, id, probe).state
  /\ twin' = cpCheck(twin, id, probe).state
  /\ Asked

bothDelete(id) ==
  /\ cp' = cpDelete(cp, id).state
  /\ twin' = cpDelete(twin, id).state
  /\ Asked

NextSecret ==
  \/ \E shared \in SharedDrafts, authToken \in Tokens, otherToken \in Tokens :
       bothCreate(shared, authToken, otherToken)
  \/ \E id \in idsOf(cp.servers), shared \in SharedDrafts,
        authToken \in Tokens, otherToken \in Tokens :
       bothUpdate(id, shared, authToken, otherToken)
  \/ \E id \in idsOf(cp.servers), probe \in Probes : bothCheck(id, probe)
  \/ \E id \in idsOf(cp.servers) : bothDelete(id)

SpecSecret == Init /\ [][NextSecret]_vars

----------------------------------------------------------------------------
(* One Update and one Delete inside the control plane, each in two steps     *)
(* under the lock of its id.                                                 *)

MaxServers == 2

UpdatePayloads ==
  { Payload(BlankToken \o NameW, EndpointX, "sse", hasToken, TokenXyz) :
      hasToken \in BOOLEAN }
    \cup { Payload(BlankToken, EndpointX, "sse", FALSE, <<>>) }

\* Servers are registered before the two requests arrive.
register(payload) ==
  /\ updating.pc = "idle" /\ deleting.pc = "idle"
  /\ cp.nextId <= MaxServers
  /\ cp' = cpCreate(cp, payload).state
  /\ UNCHANGED <<storeVars, proxyVars, dashVars, twin, locks, updating, deleting>>

beginUpdate(id, payload) ==
  /\ updating.pc = "idle"
  /\ updating' = [Idle EXCEPT !.pc = "waiting", !.id = id, !.payload = payload]
  /\ UNCHANGED <<storeVars, proxyVars, dashVars, cp, twin, locks, deleting>>

lockUpdate ==
  /\ updating.pc = "waiting"
  /\ free(locks, updating.id)
  /\ locks' = locks \cup {updating.id}
  /\ updating' = [updating EXCEPT !.pc = "locked"]
  /\ UNCHANGED <<storeVars, proxyVars, dashVars, cp, twin, deleting>>

\* NotFoundError, ValidationError, or the record is replaced.
replaceUpdate ==
  /\ updating.pc = "locked"
  /\ IF ~cpKnown(cp, updating.id) \/ ~cpValid(updating.payload)
       THEN /\ updating' = [updating EXCEPT
                              !.pc = "done",
                              !.result = IF cpKnown(cp, updating.id)
                                           THEN "ValidationError" ELSE "NotFoundError"]
            /\ locks' = locks \ {updating.id}
            /\ UNCHANGED cp
       ELSE /\ cp' = cpUpdateRecord(cp, updating.id, updating.payload)
            /\ updating' = [updating EXCEPT !.pc = "replaced"]
            /\ UNCHANGED locks
  /\ UNCHANGED <<storeVars, proxyVars, dashVars, twin, deleting>>

secretUpdate ==
  /\ updating.pc = "replaced"
  /\ cp' = cpUpdateSecret(cp, updating.id, updating.payload)
  /\ locks' = locks \ {updating.id}
  /\ updating' = [updating EXCEPT !.pc = "done", !.result = "updated"]
  /\ UNCHANGED <<storeVars, proxyVars, dashVars, twin, deleting>>

beginDelete(id) ==
  /\ deleting.pc = "idle"
  /\ deleting' = [Idle EXCEPT !.pc = "waiting", !.id = id]
  /\ UNCHANGED <<storeVars, proxyVars, dashVars, cp, twin, locks, updating>>

lockDelete ==
  /\ deleting.pc = "waiting"
  /\ free(locks, deleting.id)
  /\ locks' = locks \cup {deleting.id}
  /\ deleting' = [deleting EXCEPT !.pc = "locked"]
  /\ UNCHANGED <<storeVars, proxyVars, dashVars, cp, twin, updating>>

recordDelete ==
  /\ deleting.pc = "locked"
  /\ cp' = cpDeleteRecord(cp, deleting.id)
  /\ deleting' = [deleting EXCEPT
                    !.pc = "removed",
                    !.result = IF cpKnown(cp, deleting.id) THEN "true" ELSE "false"]
  /\ UNCHANGED <<storeVars, proxyVars, dashVars, twin, locks, updating>>

secretDelete ==
  /\ deleting.pc = "removed"
  /\ cp' = cpDeleteSecret(cp, deleting.id)
  /\ locks' = locks \ {deleting.id}
  /\ deleting' = [deleting EXCEPT !.pc = "done"]
  /\ UNCHANGED <<storeVars, proxyVars, dashVars, twin, updating>>

NextCP ==
  \/ register(Payload(NameW, EndpointX, "http", TRUE, TokenAbc))
  \/ \E id \in idsOf(cp.servers), payload \in UpdatePayloads : beginUpdate(id, payload)
  \/ lockUpdate
  \/ replaceUpdate
  \/ secretUpdate
  \/ \E id \in idsOf(cp.servers) : beginDelete(id)
  \/ lockDelete
  \/ recordDelete
  \/ secretDelete

SpecCP == Init /\ [][NextCP]_vars

----------------------------------------------------------------------------
(* The log cap *)

\* C1: every per-server log held in the store has at most 200 entries.
LogsWithinCap == \A k \in DOMAIN logs : Len(logs[k]) <= LogCap

\* A log that is full after more than 200 entries were put in it.
LogOverflowed ==
  \E k \in DOMAIN logs : Len(logs[k]) = LogCap /\ Len(appended[k]) > LogCap

\* C2: a log holds the most recent entries put in it, at most 200 of them,
\* newest first; an append puts its entry at the front, keeps the entries
\* behind it in order, drops only from the back, and leaves the logs of the
\* other ids as they were.
AppendKeepsNewest ==
  /\ \A k \in DOMAIN logs :
       EntryIds(logs[k]) = SubSeq(appended[k], 1, Min(LogCap, Len(appended[k])))
  /\ last.op = "appendServerLog" =>
       /\ last.id \in DOMAIN logs
       /\ logs[last.id][1] =
            [id |-> nextUuid - 1, timestamp |-> last.arg.timestamp,
             level |-> last.arg.level, message |-> last.arg.message]
       /\ LET old == GetOrEmpty(pre.logs, last.id)
          IN Tail(logs[last.id]) = SubSeq(old, 1, Min(LogCap - 1, Len(old)))
       /\ \A k \in ServerIds \ {last.id} :
            /\ (k \in DOMAIN logs) = (k \in DOMAIN pre.logs)
            /\ k \in DOMAIN logs => logs[k] = pre.logs[k]

\* The 205th entry has just been appended to a log, and another log exists.
AppendedPastCap ==
  /\ last.op = "appendServerLog"
  /\ Len(appended[last.id]) >= 205
  /\ Len(logs[last.id]) = LogCap
  /\ \E k \in ServerIds \ {last.id} : k \in DOMAIN logs

----------------------------------------------------------------------------
(* The registry *)

ValidCreate(server) ==
  /\ ~IsBlank(server.name)
  /\ ~IsBlank(server.endpoint)
  /\ server.type \in RecognizedTypes
  /\ server.id # ""

\* C3: there is exactly one record per id in the list, and a record that was
\* there before the last call has kept its id and createdAt.
OneRecordPerId ==
  /\ \A i, j \in 1..Len(servers) : servers[i].id = servers[j].id => i = j
  /\ \A i \in 1..Len(servers), j \in 1..Len(pre.servers) :
       servers[i].id = pre.servers[j].id
         => servers[i].createdAt = pre.servers[j].createdAt

\* C4: after a create with valid input the list holds exactly one record for
\* the new id, with the supplied name, endpoint and type, a non-empty id and
\* the creation time, and every record listed before is still there.
CreateThenList ==
  last.op = "addServer" /\ ValidCreate(last.arg) =>
    /\ Cardinality({ i \in 1..Len(servers) : servers[i].id = last.arg.id }) = 1
    /\ \E i \in 1..Len(servers) :
         /\ servers[i] = last.ret
         /\ servers[i].id = last.arg.id /\ servers[i].id # ""
         /\ servers[i].name = last.arg.name
         /\ servers[i].endpoint = last.arg.endpoint
         /\ servers[i].type = last.arg.type
    /\ \A j \in 1..Len(pre.servers) :
         \E i \in 1..Len(servers) : servers[i] = pre.servers[j]

\* C5: a create with a blank name or endpoint or an unrecognized type fails
\* with a ValidationError and changes nothing; no record with a blank name or
\* endpoint is stored.
CreateValidates ==
  /\ \A i \in 1..Len(servers) :
       ~IsBlank(servers[i].name) /\ ~IsBlank(servers[i].endpoint)
  /\ last.op = "addServer" /\ ~ValidCreate(last.arg) =>
       last.error = "ValidationError" /\ Store = pre

\* C6: a record is in the registry if and only if a log exists for its id.
RecordIffLog ==
  \A id \in ServerIds : (id \in idsOf(servers)) = (id \in DOMAIN logs)

\* C7: deleting an id that has a record returns true, leaves no record and no
\* log for the id, and leaves every other record and log as it was.
DeleteRemovesAll ==
  last.op = "removeServer" /\ last.id \in idsOf(pre.servers) =>
    /\ last.ret = TRUE
    /\ last.id \notin idsOf(servers)
    /\ last.id \notin DOMAIN logs
    /\ servers = SelectSeq(pre.servers, LAMBDA r : r.id # last.id)
    /\ \A k \in ServerIds \ {last.id} :
         /\ (k \in DOMAIN logs) = (k \in DOMAIN pre.logs)
         /\ k \in DOMAIN logs => logs[k] = pre.logs[k]

\* A delete that removed a record and its log while another server's record
\* and log stayed.
DeletedOneOfTwo ==
  /\ last.op = "removeServer"
  /\ last.ret = TRUE
  /\ last.id \in DOMAIN pre.logs /\ Len(pre.logs[last.id]) > 0
  /\ Len(servers) > 0
  /\ \E k \in ServerIds \ {last.id} : k \in DOMAIN logs

\* C8: delete returns true exactly when a record with the id was present, and
\* never fails; a second delete of the same id right after the first returns
\* false and leaves the store as the first left it.
DeleteIdempotent ==
  /\ last.op = "removeServer" =>
       /\ last.error = "none"
       /\ last.ret = (last.id \in idsOf(pre.servers))
  /\ last.op = "removeServer" /\ prior.op = "removeServer" /\ prior.id = last.id
       => last.ret = FALSE /\ Store = pre

\* A delete that removed a record, followed by a delete of the same id.
DeletedTwice ==
  /\ last.op = "removeServer"
  /\ prior.op = "removeServer" /\ prior.id = last.id /\ prior.ret = TRUE
  /\ last.ret = FALSE

----------------------------------------------------------------------------
(* Reading *)

\* C9: reading the log of an id that has none returns the empty sequence, not
\* an error and not a placeholder entry; reading a log that exists returns its
\* entries.
GetLogsEmptyForUnknown ==
  last.op = "getServerLogs" =>
    /\ last.error = "none"
    /\ last.id \notin DOMAIN pre.logs => last.ret = <<>>
    /\ last.id \in DOMAIN pre.logs => last.ret = pre.logs[last.id]

\* C10: listing the servers and reading a log change neither the registry nor
\* any log.
ReadsWriteNothing ==
  last.op \in {"listServers", "getServerLogs"} => Store = pre

----------------------------------------------------------------------------
(* The proxy routes *)

Configured(env) == env.isSet /\ env.value # <<>>

\* C14: when the control plane answers a forwarded request with status S and
\* a JSON body B, the route responds with status S and body B.
RoutesEchoUpstream ==
  route.handler # "none" /\ Configured(route.env) /\ route.upstream.kind = "json" =>
    /\ route.kind = "response"
    /\ route.status = route.upstream.status
    /\ route.body = route.upstream.body

\* The check route passed on an error status of the control plane.
EchoedErrorStatus ==
  /\ route.handler = "check POST"
  /\ route.upstream.kind = "json" /\ route.upstream.status = 404
  /\ route.kind = "response" /\ route.status = 404
  /\ route.body = route.upstream.body

\* C15: when CONTROL_PLANE_API_URL is unset or empty, getControlPlaneUrl
\* returns null and the route responds 500 with an error body without sending
\* a request to the control plane.
MissingUrlIsError ==
  route.handler # "none" /\ ~Configured(route.env) =>
    /\ getControlPlaneUrl(route.env) = Null
    /\ route.kind = "response"
    /\ route.status = 500
    /\ route.body = "error: Missing CONTROL_PLANE_API_URL."
    /\ route.sent = <<>>

\* A route answered 500 with the setting present but empty.
AnsweredMissingUrl ==
  /\ route.handler = "server PUT"
  /\ route.env = Setting(<<>>)
  /\ route.status = 500

\* C18: when fetch rejects or the body is not JSON, every route responds with
\* a 502 and an error body; no route lets the failure out as an exception.
FailuresBecome502 ==
  /\ route.kind # "threw"
  /\ route.handler # "none" /\ Configured(route.env)
       /\ route.upstream.kind \in {"reject", "notjson"}
       => /\ route.kind = "response"
          /\ route.status = 502
          /\ route.body = "error: Failed to reach control plane."

----------------------------------------------------------------------------
(* Appends after a delete *)

\* C11: a log append for an id whose record has just been deleted is a silent
\* no-op: it changes no record, appends no entry and recreates no log.
NoLogAfterDelete ==
  /\ last.op = "appendServerLog"
  /\ prior.op = "removeServer" /\ prior.id = last.id /\ prior.ret = TRUE
  => /\ last.error = "none"
     /\ last.id \notin DOMAIN logs
     /\ Store = pre

----------------------------------------------------------------------------
(* The dashboard and the control plane together *)

editTasks == { task \in tasks : task.handler = "handleEdit" }

\* C12: an update whose token field is blank or omitted leaves the stored
\* secret as it was, an update with a non-blank token replaces it by that
\* token, and the edit submit sends no authToken when the field is blank.
UpdateKeepsOrReplacesSecret ==
  \A task \in editTasks :
    /\ task.payload.hasToken =>
         /\ ~IsBlank(task.payload.authToken)
         /\ task.payload.authToken = trim(task.payload.authToken)
    /\ task.pc = "response" /\ ok(task.response) =>
         IF task.payload.hasToken
           THEN task.after = Some(task.payload.authToken)
           ELSE task.after = task.before

\* After create with "abc": a blank update has kept "abc", a further update
\* with "xyz" has replaced it, and GetToken gives "xyz".
KeptThenReplaced ==
  \E kept \in editTasks, replaced \in editTasks :
    /\ kept.n < replaced.n /\ kept.id = replaced.id
    /\ kept.pc = "response" /\ ok(kept.response)
    /\ replaced.pc = "response" /\ ok(replaced.response)
    /\ ~kept.payload.hasToken
    /\ kept.before = Some(TokenAbc) /\ kept.after = Some(TokenAbc)
    /\ replaced.payload.authToken = TokenXyz
    /\ replaced.before = Some(TokenAbc) /\ replaced.after = Some(TokenXyz)
    /\ cpGetToken(cp, replaced.id).body.value = Some(TokenXyz)

RevealedTokenIsTargets ==
  ~ui.existingToken.isNull /\ ui.editTargetId # ""
    => ui.tokenOwner = ui.editTargetId

\* C20: while the check request of handleCheck(s) is in flight, isChecking is s.
CheckingWhileInFlight ==
  \A task \in tasks :
    task.handler = "handleCheck" /\ task.pc \in {"fetch", "response"}
      => ui.isChecking = task.id

masked(record) == [record EXCEPT !.authConfigured = FALSE]

\* The records List returns, authConfigured set aside.
listed(st) ==
  [i \in 1..Len(cpList(st).body.value) |-> masked(cpList(st).body.value[i])]

\* The messages of every log entry.
messages(st) ==
  [id \in DOMAIN st.logs |-> [i \in 1..Len(st.logs[id]) |-> st.logs[id][i].message]]

\* C13: two runs given the same operations and differing only in the tokens
\* supplied return the same records from List, authConfigured apart, and hold
\* the same message in every log entry.
SecretsStayInVault ==
  /\ listed(cp) = listed(twin)
  /\ messages(cp) = messages(twin)

\* The two runs hold different secrets for a server that has been checked.
RunsDifferInSecret ==
  \E id \in DOMAIN cp.vault \cap DOMAIN twin.vault :
    /\ cp.vault[id] # twin.vault[id]
    /\ Len(cp.logs[id]) >= 2

\* C16: once an Update and a Delete of the same id have both finished, the
\* record is either absent, its log and credential with it, or present with
\* all of the update written; this holds however their steps interleave.
UpdateDeleteResolve ==
  updating.pc = "done" /\ deleting.pc = "done" /\ updating.id = deleting.id
    => \/ /\ ~cpKnown(cp, updating.id)
          /\ updating.id \notin DOMAIN cp.logs
          /\ updating.id \notin DOMAIN cp.vault
          /\ updating.id \notin DOMAIN cp.checks
       \/ \E i \in 1..Len(cp.servers) :
            /\ cp.servers[i].id = updating.id
            /\ updating.result = "updated"
            /\ cp.servers[i].name = updating.payload.name
            /\ cp.servers[i].endpoint = updating.payload.endpoint
            /\ cp.servers[i].type = updating.payload.type
            /\ updating.payload.hasToken
                 => secretOf(cp, updating.id) = Some(updating.payload.authToken)

\* An Update that wrote a new token and a Delete of the same server are done.
UpdateAndDeleteDone ==
  /\ updating.pc = "done" /\ deleting.pc = "done" /\ updating.id = deleting.id
  /\ updating.result = "updated" /\ updating.payload.hasToken
  /\ deleting.result = "true"

HasScheme(str) == StartsWith(str, SchemeHttp) \/ StartsWith(str, SchemeHttps)

\* C22: for a non-empty setting the URL starts with http:// or https:// and
\* ends with no slash; a setting with a scheme keeps it, a bare host ending in
\* .railway.internal, with or without a trailing slash, gets http, and any
\* other bare host gets https.
UrlIsNormalized ==
  route.handler # "none" /\ route.env.isSet /\ Len(route.env.value) > 0
    => LET raw == route.env.value
           url == getControlPlaneUrl(route.env)
       IN /\ ~url.isNull
          /\ HasScheme(url.value)
          /\ ~EndsWith(url.value, <<"/">>)
          /\ StartsWith(raw, SchemeHttp) => StartsWith(url.value, SchemeHttp)
          /\ StartsWith(raw, SchemeHttps) => StartsWith(url.value, SchemeHttps)
          /\ ~HasScheme(raw) =>
               IF EndsWith(stripTrailingSlash(raw), RailwayInternal)
                 THEN StartsWith(url.value, SchemeHttp)
                 ELSE StartsWith(url.value, SchemeHttps)

loads == { task \in tasks : task.pc \in {"load fetch", "load response"} }

\* C21: isLoading is true exactly while a load is in flight, and once no
\* request is in flight and the last one has succeeded, the servers shown are
\* the ones the control plane lists.
DisplayFollowsRegistry ==
  /\ ui.isLoading = (loads # {})
  /\ tasks = {} /\ ~ui.errorMessage /\ unhandled = {}
       => ui.servers = cpList(cp).body.value

====
